---------------------------- MODULE Spec2Model ----------------------------
(***************************************************************************)
(* AIConnectionManager (python-backend/ai/connection_manager.py) as a      *)
(* state machine of asyncio tasks.  Every coroutine runs atomically from   *)
(* one suspension point (an await that really yields) to the next; the     *)
(* suspension points are the transport open, close, send and recv calls    *)
(* and the two sleeps.  A task is a slot of `tasks` holding the root       *)
(* coroutine it runs (kind), where it is suspended (pc) and the locals it  *)
(* needs when it resumes.  The frontend's BackendClient                    *)
(* (python-frontend/services/backend_client.py) is modelled the same way   *)
(* in the record backend_client.                                           *)
(***************************************************************************)
EXTENDS Integers, Sequences, FiniteSets, TLC

\* ----------------------------------------------------------------- bounds
MaxTasks == 3
MaxHandles == 2
MaxHistory == 2
MaxStream == 3
MaxFragments == 3
MaxConfigured == 10
ConfiguredMaxAttempts == 2
ClientReconnectAttempts == 2      \* config.reconnect_attempts of the frontend

\* ------------------------------------------------------ program constants
DefaultMaxAttempts == 10
BackoffCap == 30
BaseDelay == 1

\* The task slots: MaxTasks of them, and one more for the runs that follow two
\* reconnects at once (see slots).
TaskIds == 1..(MaxTasks + 1)
HandleIds == 1..MaxHandles

VARIABLES
    is_connected,                 \* self.is_connected
    is_receiving,                 \* self.is_receiving
    should_maintain_connection,   \* self.should_maintain_connection
    websocket,                    \* self.websocket: 0 is None, else a handle
    message_stream,               \* self.message_stream: a sequence of characters
    message_history,              \* self.message_history: sequence of AIMessage
    last_messages,                \* self.last_messages: sequence of MessageData
    reconnection_attempts,        \* self.reconnection_attempts
    max_reconnection_attempts,    \* self.max_reconnection_attempts
    reconnection_delay,           \* self.reconnection_delay
    receive_task,                 \* self.receive_task: 0 is None or a finished task
    connection_monitor_task,      \* self.connection_monitor_task
    tasks,                        \* the event loop's tasks
    open,                         \* the transport: handles whose connection is open
    last,                         \* what the last step did (its calls out of the manager)
    disconnected,                 \* history: disconnect() has returned; what it found when called
    gave_up,                      \* history: the error path hit the cap, no explicit call since
    solo,                         \* history: counts of one connect() call on a rejecting transport
    turn,                         \* history: the raw fragments received since the last send_message
    slots,                        \* bound: how many tasks can be alive at once in this run
    backend_client                \* the frontend's BackendClient: its fields, tasks and transport

vars == << is_connected, is_receiving, should_maintain_connection, websocket,
           message_stream, message_history, last_messages, reconnection_attempts,
           max_reconnection_attempts, reconnection_delay, receive_task,
           connection_monitor_task, tasks, open, last, disconnected, gave_up, solo,
           turn, slots, backend_client >>

\* Nothing done yet: the label a step starts from.
NoLabel ==
    [ calls |-> << >>, cb |-> << >>, msg |-> << >>, tx |-> << >>, spawn |-> << >>,
      err |-> "", frame |-> << >>, args |-> << >> ]

\* The state as one record, so that a coroutine's statements compose.
Cur ==
    [ is_connected |-> is_connected, is_receiving |-> is_receiving,
      should_maintain_connection |-> should_maintain_connection,
      websocket |-> websocket, message_stream |-> message_stream,
      message_history |-> message_history, last_messages |-> last_messages,
      reconnection_attempts |-> reconnection_attempts,
      max_reconnection_attempts |-> max_reconnection_attempts,
      reconnection_delay |-> reconnection_delay, receive_task |-> receive_task,
      connection_monitor_task |-> connection_monitor_task, tasks |-> tasks,
      open |-> open, disconnected |-> disconnected, gave_up |-> gave_up,
      solo |-> solo, turn |-> turn, slots |-> slots,
      last |-> NoLabel ]

Commit(s) ==
    \E c \in {s} :
      /\ is_connected' = c.is_connected
      /\ is_receiving' = c.is_receiving
      /\ should_maintain_connection' = c.should_maintain_connection
      /\ websocket' = c.websocket
      /\ message_stream' = c.message_stream
      /\ message_history' = c.message_history
      /\ last_messages' = c.last_messages
      /\ reconnection_attempts' = c.reconnection_attempts
      /\ max_reconnection_attempts' = c.max_reconnection_attempts
      /\ reconnection_delay' = c.reconnection_delay
      /\ receive_task' = c.receive_task
      /\ connection_monitor_task' = c.connection_monitor_task
      /\ tasks' = c.tasks
      /\ open' = c.open
      /\ last' = c.last
      /\ disconnected' = c.disconnected
      /\ gave_up' = c.gave_up
      /\ solo' = c.solo
      /\ turn' = c.turn
      /\ slots' = c.slots
      /\ UNCHANGED backend_client


\* ------------------------------------------------------------ pure helpers
Min(a, b) == IF a <= b THEN a ELSE b

\* Mutant of BackoffDelay: the cap is forgotten.
BackoffDelay_NoCap(delay, attempts) == delay * 2 ^ (attempts - 1)

\* line 354: min(self.reconnection_delay * (2 ** (attempts - 1)), 30.0)
BackoffDelay(delay, attempts) == Min(delay * 2 ^ (attempts - 1), BackoffCap)

\* The characters the model's texts are made of, and the classes of the
\* pattern of lines 308-312, r'\s+([,\'"`])$'.
Whitespace == { " ", "\n" }
Punctuation == { ",", "'" }

\* Where the pattern's group can end: `$` matches at the end of the string and
\* before a newline that ends it.
MatchEnd(s) ==
    LET n == Len(s) IN
    IF n >= 1 /\ s[n] \in Punctuation THEN n
    ELSE IF n >= 2 /\ s[n] = "\n" /\ s[n-1] \in Punctuation THEN n - 1
    ELSE 0

\* re.sub(r'\s+([,\'"`])$', r'\1', s): the whitespace run before the final
\* punctuation character is removed.
CleanPunctuation(s) ==
    LET e == MatchEnd(s) IN
    IF e = 0 THEN s
    ELSE LET i == CHOOSE j \in 1..e :
                    /\ \A k \in j..(e-1) : s[k] \in Whitespace
                    /\ (j = 1 \/ s[j-1] \notin Whitespace)
         IN IF i = e THEN s ELSE SubSeq(s, 1, i - 1) \o SubSeq(s, e, Len(s))

\* any([ocr_text, selected_text, browser_url]) of line 216; a context is the
\* triple of the three optional arguments, each "None", "" or a text.
Truthy(v) == v \notin { "None", "" }
\* A test that takes every argument that is not None as present.
AnyContext_NotNone(ctx) == \E i \in 1..3 : ctx[i] # "None"
AnyContext(ctx) == \E i \in 1..3 : Truthy(ctx[i])

\* lines 213-217: AIMessage(role="user", content=text, metadata=...); the
\* metadata is << >> for None and <<ctx>> for the dictionary.
UserMessage(text, ctx) ==
    [ role |-> "user", content |-> text,
      metadata |-> IF AnyContext(ctx) THEN << ctx >> ELSE << >> ]

\* lines 288-291: AIMessage(role="assistant", content=response.content)
AssistantMessage(content) ==
    [ role |-> "assistant", content |-> content, metadata |-> << >> ]

\* Display records that are all marked as the user's.
MessageData_AllUser(text, user) == [ message |-> text, is_user |-> TRUE ]

\* lines 189-200: MessageData(message=..., is_user=...)
MessageData(text, user) == [ message |-> text, is_user |-> user ]

\* ------------------------------------------------------------------ tasks
NoContext == << "None", "None", "None" >>
FreeTask ==
    [ kind |-> "free", pc |-> "-", cancel |-> FALSE, h |-> 0, delay |-> 0,
      text |-> << >>, ctx |-> NoContext ]
NewTask(kind, pc) == [ FreeTask EXCEPT !.kind = kind, !.pc = pc ]

FreeSlots(s) == { t \in TaskIds : t <= s.slots /\ s.tasks[t].kind = "free" }
FirstOf(S) == CHOOSE x \in S : \A y \in S : x <= y
FreeHandles(s) ==
    { h \in HandleIds : /\ h \notin s.open
                        /\ s.websocket # h
                        /\ \A t \in TaskIds : s.tasks[t].h # h }

\* What a step did, for the properties that speak of calls and callbacks.
Note(s, field, x) == [ s EXCEPT !.last[field] = Append(@, x) ]
Called(s, f) == Note(s, "calls", f)

\* A manager that reports connections only, never their loss.
ConnectionChanged_OnlyTrue(s, b) == IF b THEN Note(s, "cb", b) ELSE s

\* self.on_connection_changed(b), lines 123-124, 154-155, 346-347
ConnectionChanged(s, b) == Note(s, "cb", b)

\* self.on_message_received(self.message_stream), lines 295-296, 315-316
MessageReceived(s) == Note(s, "msg", s.message_stream)

\* A coroutine that ends: its task is done.  A reference to a done task
\* behaves as None does (cancel() of a done task does nothing), and is 0.
Finish(s, t) ==
    [ s EXCEPT !.tasks[t] = FreeTask,
               !.receive_task = IF @ = t THEN 0 ELSE @,
               !.connection_monitor_task = IF @ = t THEN 0 ELSE @ ]

\* task.cancel(), lines 140-145: the task gets CancelledError when it next runs.
Cancel(s, t) ==
    IF t = 0 THEN s ELSE [ s EXCEPT !.tasks[t].cancel = TRUE ]

\* The fragments of a turn, when they are recorded: the first, and the later
\* ones in their order.
NewTurn == [ on |-> TRUE, n |-> 0, first |-> << >>, rest |-> << >> ]
NoTurn == [ NewTurn EXCEPT !.on = FALSE ]
Heard(s, f) ==
    IF ~ s.turn.on THEN s
    ELSE IF s.turn.n = 0
    THEN [ s EXCEPT !.turn.n = 1, !.turn.first = f.content ]
    ELSE [ s EXCEPT !.turn.n = @ + 1, !.turn.rest = Append(@, f.content) ]

\* ------------------------------------------------------------ send_message
\* A send_message without the assignment of line 233.
SendBody_NotReceiving(s, t) ==
    LET text == s.tasks[t].text
        ctx == s.tasks[t].ctx
        shown == IF s.message_stream # << >>
                 THEN Append(s.last_messages, MessageData(s.message_stream, FALSE))
                 ELSE s.last_messages
        s1 == [ s EXCEPT !.last_messages = Append(shown, MessageData(text, TRUE)),
                         !.message_stream = << >>,
                         !.message_history = Append(@, UserMessage(text, ctx)),
                         !.last.args = << [ text |-> text, ctx |-> ctx ] >>,
                         !.turn = IF s.turn.on THEN NewTurn ELSE @ ]
    IN  IF s1.websocket = 0
        THEN Finish([ s1 EXCEPT !.is_receiving = FALSE, !.last.err = "send failed" ], t)
        ELSE [ Note(s1, "tx", [ call |-> "send", h |-> s1.websocket,
                                 messages |-> s1.message_history ])
               EXCEPT !.tasks[t] = [ NewTask("send", "s_send") EXCEPT
                                       !.h = s1.websocket ] ]

\* A send_message whose request holds the new user message only.
SendBody_SendsLastOnly(s, t) ==
    LET text == s.tasks[t].text
        ctx == s.tasks[t].ctx
        shown == IF s.message_stream # << >>
                 THEN Append(s.last_messages, MessageData(s.message_stream, FALSE))
                 ELSE s.last_messages
        s1 == [ s EXCEPT !.last_messages = Append(shown, MessageData(text, TRUE)),
                         !.message_stream = << >>,
                         !.message_history = Append(@, UserMessage(text, ctx)),
                         !.last.args = << [ text |-> text, ctx |-> ctx ] >>,
                         !.is_receiving = TRUE,
                         !.turn = IF s.turn.on THEN NewTurn ELSE @ ]
    IN  IF s1.websocket = 0
        THEN Finish([ s1 EXCEPT !.is_receiving = FALSE, !.last.err = "send failed" ], t)
        ELSE [ Note(s1, "tx", [ call |-> "send", h |-> s1.websocket,
                                 messages |-> << UserMessage(text, ctx) >> ])
               EXCEPT !.tasks[t] = [ NewTask("send", "s_send") EXCEPT
                                       !.h = s1.websocket ] ]

\* lines 186-240, from the flush of the previous stream to the transport send.
SendBody(s, t) ==
    LET text == s.tasks[t].text
        ctx == s.tasks[t].ctx
        shown == IF s.message_stream # << >>
                 THEN Append(s.last_messages, MessageData(s.message_stream, FALSE))
                 ELSE s.last_messages
        s1 == [ s EXCEPT !.last_messages = Append(shown, MessageData(text, TRUE)),
                         !.message_stream = << >>,
                         !.message_history = Append(@, UserMessage(text, ctx)),
                         !.last.args = << [ text |-> text, ctx |-> ctx ] >>,
                         !.is_receiving = TRUE,
                         !.turn = IF s.turn.on THEN NewTurn ELSE @ ]
    IN  IF s1.websocket = 0
        THEN \* None has no send(): the except of lines 238-240
             Finish([ s1 EXCEPT !.is_receiving = FALSE, !.last.err = "send failed" ], t)
        ELSE [ Note(s1, "tx", [ call |-> "send", h |-> s1.websocket,
                                 messages |-> s1.message_history ])
               EXCEPT !.tasks[t] = [ NewTask("send", "s_send") EXCEPT
                                       !.h = s1.websocket ] ]

\* A send_message that records the user message before it tests the connection.
SendAfterConnect_RecordsFirst(s, t) ==
    IF ~ s.is_connected
    THEN Finish([ s EXCEPT !.last_messages =
                               Append(@, MessageData(s.tasks[t].text, TRUE)),
                           !.last.err = "not connected" ], t)
    ELSE SendBody(s, t)

\* lines 183-184, after connect() has returned to send_message
SendAfterConnect(s, t) ==
    IF ~ s.is_connected
    THEN Finish([ s EXCEPT !.last.err = "not connected" ], t)
    ELSE SendBody(s, t)

\* ----------------------------------------------------- _monitor_connection
\* line 329: the loop's test, and the sleep of line 331 when it passes
MonitorLoop(s, t) ==
    IF s.should_maintain_connection
    THEN [ s EXCEPT !.tasks[t].pc = "m_sleep" ]
    ELSE Finish(s, t)

\* Where connect(), _reconnect() and _handle_connection_error() return to: all
\* three end with the call of the next, so the chain returns to the coroutine
\* the task started with.
Return(s, t) ==
    CASE s.tasks[t].kind = "send" -> SendAfterConnect(s, t)
      [] s.tasks[t].kind = "mon" -> MonitorLoop(s, t)
      [] OTHER -> Finish(s, t)

\* Mutant of HandleConnectionError: at the cap the attempts are not reset.
HandleConnectionError_NoReset(s, t) ==
    LET s1 == ConnectionChanged([ Called(s, "_handle_connection_error")
                                  EXCEPT !.is_connected = FALSE ], FALSE) IN
    IF ~ s1.should_maintain_connection THEN Return(s1, t)
    ELSE IF s1.reconnection_attempts < s1.max_reconnection_attempts
    THEN LET n == s1.reconnection_attempts + 1 IN
         [ s1 EXCEPT !.reconnection_attempts = n,
                     !.tasks[t].pc = "h_sleep",
                     !.tasks[t].delay = BackoffDelay(s1.reconnection_delay, n),
                     !.solo.sleeps = IF s1.solo.on THEN @ + 1 ELSE @ ]
    ELSE Return([ s1 EXCEPT !.gave_up = TRUE, !.last.err = "max attempts" ], t)

\* Mutant of HandleConnectionError: the cap is tested with <=, one retry more.
HandleConnectionError_OneMore(s, t) ==
    LET s1 == ConnectionChanged([ Called(s, "_handle_connection_error")
                                  EXCEPT !.is_connected = FALSE ], FALSE) IN
    IF ~ s1.should_maintain_connection THEN Return(s1, t)
    ELSE IF s1.reconnection_attempts <= s1.max_reconnection_attempts
    THEN LET n == s1.reconnection_attempts + 1 IN
         [ s1 EXCEPT !.reconnection_attempts = n,
                     !.tasks[t].pc = "h_sleep",
                     !.tasks[t].delay = BackoffDelay(s1.reconnection_delay, n),
                     !.solo.sleeps = IF s1.solo.on THEN @ + 1 ELSE @ ]
    ELSE Return([ s1 EXCEPT !.reconnection_attempts = 0, !.gave_up = TRUE,
                            !.last.err = "max attempts" ], t)

\* ------------------------------------------------ _handle_connection_error
\* lines 342-362, to the sleep of line 358 or to the return
HandleConnectionError(s, t) ==
    LET s1 == ConnectionChanged([ Called(s, "_handle_connection_error")
                                  EXCEPT !.is_connected = FALSE ], FALSE) IN
    IF ~ s1.should_maintain_connection THEN Return(s1, t)
    ELSE IF s1.reconnection_attempts < s1.max_reconnection_attempts
    THEN LET n == s1.reconnection_attempts + 1 IN
         [ s1 EXCEPT !.reconnection_attempts = n,
                     !.tasks[t].pc = "h_sleep",
                     !.tasks[t].delay = BackoffDelay(s1.reconnection_delay, n),
                     !.solo.sleeps = IF s1.solo.on THEN @ + 1 ELSE @ ]
    ELSE Return([ s1 EXCEPT !.reconnection_attempts = 0, !.gave_up = TRUE,
                            !.last.err = "max attempts" ], t)

\* ---------------------------------------------------------------- connect
\* Mutants of ConnectGuard: one of the two tests is missing.
ConnectGuard_FlagOnly(s) == ~ s.should_maintain_connection
ConnectGuard_HandleOnly(s) == s.websocket # 0

\* lines 102-103
ConnectGuard(s) == s.websocket # 0 \/ ~ s.should_maintain_connection

\* lines 100-113, to the await of websockets.connect
Connect(s0, t) ==
    LET s == Called(s0, "connect") IN
    IF ConnectGuard(s) THEN Return(s, t)
    ELSE [ Note(s, "tx", [ call |-> "connect", h |-> 0, messages |-> << >> ])
           EXCEPT !.tasks[t].pc = "c_open",
                  !.solo.opens = IF s.solo.on THEN @ + 1 ELSE @ ]

\* lines 242-248: asyncio.create_task of the receive loop and of the monitor
StartReceiveTask(s) ==
    LET r == FirstOf(FreeSlots(s)) IN
    [ Note(s, "spawn", r) EXCEPT !.tasks[r] = NewTask("recv", "r_start"),
                                 !.receive_task = r ]
StartConnectionMonitor(s) ==
    LET m == FirstOf(FreeSlots(s)) IN
    [ Note(s, "spawn", m) EXCEPT !.tasks[m] = NewTask("mon", "m_start"),
                                 !.connection_monitor_task = m ]

\* Mutant of ConnectSucceeded: reconnection_attempts is not reset.
ConnectSucceeded_KeepsAttempts(s, t, h) ==
    LET s1 == [ s EXCEPT !.websocket = h, !.open = @ \cup { h },
                         !.is_connected = TRUE,
                         !.reconnection_delay = BaseDelay ]
        s2 == StartConnectionMonitor(StartReceiveTask(s1))
    IN  Return(ConnectionChanged(s2, TRUE), t)

\* lines 108-126: websockets.connect returned a connection
ConnectSucceeded(s, t, h) ==
    LET s1 == [ s EXCEPT !.websocket = h, !.open = @ \cup { h },
                         !.is_connected = TRUE,
                         !.reconnection_attempts = 0,
                         !.reconnection_delay = BaseDelay ]
        s2 == StartConnectionMonitor(StartReceiveTask(s1))
    IN  Return(ConnectionChanged(s2, TRUE), t)

\* lines 128-133: websockets.connect raised
ConnectFailed(s, t) ==
    LET s1 == [ s EXCEPT !.is_connected = FALSE ] IN
    IF s1.should_maintain_connection THEN HandleConnectionError(s1, t)
    ELSE Return(s1, t)

\* -------------------------------------------------------------- _reconnect
\* lines 375-378, after the close
ReconnectClosed(s, t) ==
    Connect([ s EXCEPT !.websocket = 0, !.tasks[t].h = 0 ], t)

\* lines 364-378, to the await of the close or of websockets.connect
Reconnect(s0, t) ==
    LET s == Called(s0, "_reconnect") IN
    IF ~ s.should_maintain_connection THEN Return(s, t)
    ELSE IF s.websocket # 0
    THEN [ Note(s, "tx", [ call |-> "close", h |-> s.websocket, messages |-> << >> ])
           EXCEPT !.open = @ \ { s.websocket },
                  !.tasks[t].pc = "rc_close", !.tasks[t].h = s.websocket ]
    ELSE ReconnectClosed(s, t)


\* ------------------------------------------------------- inbound payloads
\* A payload the transport delivers: k is "obj" (a JSON object AIResponse
\* accepts: content, and is_complete or its default), "other" (JSON that
\* AIResponse(**data) rejects: a scalar, a list, an object without content or
\* with another key), "raw" (not JSON) or "bytes" (a binary frame that is not
\* UTF-8); bin tells a binary frame from a text frame.
Contents == { << "a" >>, << "b" >> }
RawTexts == { << "c" >>, << " ", "'" >> }
Frames ==
    [ k : { "obj" }, content : Contents, is_complete : BOOLEAN, bin : BOOLEAN ]
    \cup [ k : { "raw" }, content : RawTexts, is_complete : { FALSE }, bin : BOOLEAN ]
    \cup [ k : { "other" }, content : { << "7" >> }, is_complete : { FALSE }, bin : BOOLEAN ]
    \cup [ k : { "bytes" }, content : { << >> }, is_complete : { FALSE }, bin : { TRUE } ]

\* lines 279-280: json.loads and AIResponse(**response_data) raise TypeError
\* (not json.JSONDecodeError) on JSON that is no such object
RaisesTypeError(f) == f.k = "other"

HandleStructured_AppendsAlways(s, f) ==
    MessageReceived([ s EXCEPT !.message_stream = f.content,
                               !.is_receiving = IF f.is_complete THEN FALSE ELSE @,
                               !.message_history =
                                   Append(@, AssistantMessage(f.content)) ])

\* A handler that appends a structured payload's content to the buffer.
HandleStructured_Appends(s, f) ==
    LET s1 == [ s EXCEPT !.message_stream = @ \o f.content ]
        s2 == IF f.is_complete
              THEN [ s1 EXCEPT !.is_receiving = FALSE,
                               !.message_history = Append(@, AssistantMessage(f.content)) ]
              ELSE s1
    IN  MessageReceived(s2)

\* A handler that puts the completed answer in the place of the log's last
\* message.
HandleStructured_ReplacesLast(s, f) ==
    LET s1 == [ s EXCEPT !.message_stream = f.content ]
        s2 == IF f.is_complete
              THEN [ s1 EXCEPT !.is_receiving = FALSE,
                               !.message_history =
                                   IF @ = << >> THEN << AssistantMessage(f.content) >>
                                   ELSE [ @ EXCEPT ![Len(@)] = AssistantMessage(f.content) ] ]
              ELSE s1
    IN  MessageReceived(s2)

\* lines 277-296: the payload parsed as an AIResponse
HandleStructured(s, f) ==
    LET s1 == [ s EXCEPT !.message_stream = f.content ]
        s2 == IF f.is_complete
              THEN [ s1 EXCEPT !.is_receiving = FALSE,
                               !.message_history = Append(@, AssistantMessage(f.content)) ]
              ELSE s1
    IN  MessageReceived(s2)

HandleFragment_NoClean(s, f) ==
    LET s1 == IF s.is_receiving
              THEN [ s EXCEPT !.is_receiving = FALSE, !.message_stream = f.content ]
              ELSE [ s EXCEPT !.message_stream = @ \o f.content ]
    IN  MessageReceived(Heard(s1, f))

\* lines 298-316: json.JSONDecodeError, the payload is streamed text
HandleFragment(s, f) ==
    LET s1 == IF s.is_receiving
              THEN [ s EXCEPT !.is_receiving = FALSE, !.message_stream = f.content ]
              ELSE [ s EXCEPT !.message_stream = CleanPunctuation(@ \o f.content) ]
    IN  MessageReceived(Heard(s1, f))

\* lines 275-316, for a payload that raises nothing the handler does not catch
HandleTextMessage(s, f) ==
    IF f.k = "obj" THEN HandleStructured(s, f) ELSE HandleFragment(s, f)

\* A handler that takes bytes that do not decode for an empty fragment.
HandleBinaryMessage_AsFragment(s, f) ==
    IF f.k = "bytes" THEN HandleFragment(s, f) ELSE HandleTextMessage(s, f)

\* lines 318-325: bytes that do not decode are dropped
HandleBinaryMessage(s, f) ==
    IF f.k = "bytes" THEN s ELSE HandleTextMessage(s, f)

\* ------------------------------------------------------ _receive_messages
\* A receive loop that ends without a word.
ReceiveFinally_Silent(s, t) == Finish(s, t)

\* A receive loop that ends the turn when it ends.
ReceiveFinally_EndsTurn(s, t) ==
    IF s.should_maintain_connection
    THEN HandleConnectionError([ s EXCEPT !.is_receiving = FALSE ], t)
    ELSE Finish(s, t)

\* lines 271-273: the finally of the receive loop
ReceiveFinally(s, t) ==
    IF s.should_maintain_connection THEN HandleConnectionError(s, t)
    ELSE Finish(s, t)

\* lines 253-255: the loop's test and the recv() it awaits; a second recv()
\* on a connection another task is already reading raises, which breaks the loop
ReceiveLoop(s, t) ==
    IF s.websocket # 0 /\ s.should_maintain_connection
    THEN IF \E u \in TaskIds \ { t } :
                s.tasks[u].pc = "r_recv" /\ s.tasks[u].h = s.websocket
         THEN ReceiveFinally([ s EXCEPT !.tasks[t].h = 0, !.last.err = "recv raised" ], t)
         ELSE [ s EXCEPT !.tasks[t].pc = "r_recv", !.tasks[t].h = s.websocket ]
    ELSE ReceiveFinally([ s EXCEPT !.tasks[t].h = 0 ], t)

\* lines 255-267: recv() returned payload f
Received(s, t, f) ==
    IF RaisesTypeError(f)
    THEN ReceiveFinally([ s EXCEPT !.tasks[t].h = 0, !.last.err = "recv raised" ], t)
    ELSE ReceiveLoop(IF f.bin THEN HandleBinaryMessage(s, f)
                     ELSE HandleTextMessage(s, f), t)

\* -------------------------------------------------------------- disconnect
\* lines 152-157
DisconnectEnd(s, t) ==
    Finish([ Called(ConnectionChanged([ s EXCEPT !.is_connected = FALSE ], FALSE),
                    "disconnect returned")
             EXCEPT !.disconnected.returned = TRUE ], t)

\* lines 149-150 after the close
DisconnectClosed(s, t) == DisconnectEnd([ s EXCEPT !.websocket = 0 ], t)

\* Mutant of Disconnect: the monitor task is not cancelled.
Disconnect_NoMonitorCancel(s, t) ==
    LET s1 == [ Called(s, "disconnect") EXCEPT
                  !.should_maintain_connection = FALSE,
                  !.disconnected.in_backoff =
                      @ \/ \E u \in TaskIds : s.tasks[u].pc = "h_sleep",
                  !.disconnected.in_open =
                      @ \/ \E u \in TaskIds : s.tasks[u].pc = "c_open" ]
        s2 == Cancel(s1, s1.receive_task)
    IN  IF s2.websocket # 0
        THEN [ Note(s2, "tx", [ call |-> "close", h |-> s2.websocket,
                                 messages |-> << >> ])
               EXCEPT !.open = @ \ { s2.websocket },
                      !.tasks[t].pc = "d_close", !.tasks[t].h = s2.websocket ]
        ELSE DisconnectEnd(s2, t)

\* lines 135-149, to the await of the close (ping_task is never set)
Disconnect(s, t) ==
    LET s1 == [ Called(s, "disconnect") EXCEPT
                  !.should_maintain_connection = FALSE,
                  !.disconnected.in_backoff =
                      @ \/ \E u \in TaskIds : s.tasks[u].pc = "h_sleep",
                  !.disconnected.in_open =
                      @ \/ \E u \in TaskIds : s.tasks[u].pc = "c_open" ]
        s2 == Cancel(Cancel(s1, s1.receive_task), s1.connection_monitor_task)
    IN  IF s2.websocket # 0
        THEN [ Note(s2, "tx", [ call |-> "close", h |-> s2.websocket,
                                 messages |-> << >> ])
               EXCEPT !.open = @ \ { s2.websocket },
                      !.tasks[t].pc = "d_close", !.tasks[t].h = s2.websocket ]
        ELSE DisconnectEnd(s2, t)

\* ------------------------------------------------------ clear_conversation
\* A clear_conversation that leaves the display records.
ClearConversation_KeepsRecords(s) ==
    [ Called(s, "clear_conversation") EXCEPT !.message_history = << >>,
               !.message_stream = << >> ]

ClearConversation_ResetsReceiving(s) ==
    [ Called(s, "clear_conversation") EXCEPT !.message_history = << >>, !.last_messages = << >>,
               !.message_stream = << >>, !.is_receiving = FALSE ]

\* lines 380-384
ClearConversation(s) ==
    [ Called(s, "clear_conversation") EXCEPT !.message_history = << >>, !.last_messages = << >>,
               !.message_stream = << >> ]

\* ------------------------------------------------------------- cancellation
\* CancelledError raised in task t where it is suspended.  The bare except of
\* lines 371-374 swallows it; the monitor's except of line 337 breaks its
\* loop; in the receive task it passes the excepts of lines 262-270 (it is no
\* Exception) and the finally of lines 271-273 runs if the loop was entered.
Cancelled(s, t) ==
    LET s1 == [ s EXCEPT !.tasks[t].cancel = FALSE ] IN
    CASE s.tasks[t].pc = "rc_close" -> ReconnectClosed(s1, t)
      [] s.tasks[t].pc = "r_recv" -> ReceiveFinally([ s1 EXCEPT !.tasks[t].h = 0 ], t)
      [] OTHER -> Finish(s1, t)


\* lines 179-184: send_message up to its first await
SendMessage(s0, t) ==
    LET s == Called(s0, "send_message") IN
    IF ~ s.is_connected
    THEN IF s.should_maintain_connection THEN Connect(s, t)
         ELSE SendAfterConnect(s, t)
    ELSE SendBody(s, t)

\* ------------------------------------------------------------------- state
\* lines 71-98: __init__
\* A slot of the frontend's event loop: kind is "listener" or "reconnect".
NoClientTask == [ kind |-> "free", pc |-> "", cancel |-> FALSE, h |-> 0 ]

\* BackendClient.__init__ (lines 27-43).  call is where the application's own
\* call of connect() or disconnect() is suspended ("" when it has none), waits
\* the task that call awaits; returned tells that disconnect() has returned
\* and connect() has not been called since.
NewClient ==
    [ connected |-> FALSE, websocket |-> 0, ws_task |-> 0, session |-> FALSE,
      reconnect_attempts |-> 0,
      tasks |-> [ t \in 1..MaxTasks |-> NoClientTask ],
      open |-> { }, call |-> "", waits |-> 0, returned |-> FALSE ]

InitSlots(configured, counting, turns, n) ==
    /\ is_connected = FALSE
    /\ is_receiving = FALSE
    /\ should_maintain_connection = TRUE
    /\ websocket = 0
    /\ message_stream = << >>
    /\ message_history = << >>
    /\ last_messages = << >>
    /\ reconnection_attempts = 0
    /\ max_reconnection_attempts = configured
    /\ reconnection_delay = BaseDelay
    /\ receive_task = 0
    /\ connection_monitor_task = 0
    /\ tasks = [ t \in TaskIds |-> FreeTask ]
    /\ open = { }
    /\ last = NoLabel
    /\ disconnected = [ returned |-> FALSE, in_backoff |-> FALSE, in_open |-> FALSE ]
    /\ gave_up = FALSE
    /\ solo = [ on |-> counting, opens |-> 0, sleeps |-> 0, slept |-> 0 ]
    /\ turn = IF turns THEN NewTurn ELSE NoTurn
    /\ slots = n
    /\ backend_client = NewClient

InitState(configured, counting, turns) ==
    InitSlots(configured, counting, turns, MaxTasks)

InitWith(configured, counting) == InitState(configured, counting, FALSE)

\* The manager as constructed, max_reconnection_attempts set as configured.
Init == InitWith(ConfiguredMaxAttempts, FALSE)

Runs(t, pc) == tasks[t].pc = pc /\ ~ tasks[t].cancel

\* The send_message calls that have not reached line 186 yet.
PendingSends ==
    Cardinality({ t \in TaskIds : tasks[t].kind = "send" /\ tasks[t].pc # "s_send" })
HistoryRoom == Len(message_history) + PendingSends < MaxHistory

\* A call of the application needs a task to run in.
CanCall == FreeSlots(Cur) # { }

Texts == { << "q" >> }
Contexts == { NoContext, << "", "None", "None" >>, << "None", "x", "None" >> }

\* ----------------------------------------------------------------- actions
\* The application calls connect().
CallConnect ==
    /\ CanCall
    /\ LET t == FirstOf(FreeSlots(Cur))
           s == [ Called(Cur, "app") EXCEPT !.tasks[t] = NewTask("connect", "run"),
                                            !.gave_up = FALSE ]
       IN  Commit(Connect(s, t))

\* The application calls disconnect().
CallDisconnect ==
    /\ CanCall
    /\ LET t == FirstOf(FreeSlots(Cur))
           s == [ Called(Cur, "app") EXCEPT !.tasks[t] = NewTask("disconnect", "run") ]
       IN  Commit(Disconnect(s, t))

\* The application calls send_message(text, ...) with the optional arguments
\* of a context of C.
CallSendOf(C) ==
    /\ CanCall
    /\ HistoryRoom
    /\ \E text \in Texts, ctx \in C :
         LET t == FirstOf(FreeSlots(Cur))
             s == [ Called(Cur, "app") EXCEPT
                        !.tasks[t] = [ NewTask("send", "run") EXCEPT
                                         !.text = text, !.ctx = ctx ],
                        !.gave_up = FALSE ]
         IN  Commit(SendMessage(s, t))

CallSend == CallSendOf(Contexts)

\* send_message(text) with none of the optional arguments.
CallSendPlain == CallSendOf({ NoContext })

\* The application calls clear_conversation().
CallClear ==
    /\ Commit(ClearConversation(Called(Cur, "app")))

\* websockets.connect returns a connection to the task awaiting it.
OpenSucceeds ==
    \E t \in TaskIds :
      /\ Runs(t, "c_open")
      /\ FreeHandles(Cur) # { }
      /\ Cardinality(FreeSlots(Cur)) >= 2
      /\ Commit(ConnectSucceeded(Cur, t, FirstOf(FreeHandles(Cur))))

\* websockets.connect raises.
OpenFails ==
    \E t \in TaskIds :
      /\ Runs(t, "c_open")
      /\ Commit(ConnectFailed(Cur, t))

\* The sleep of line 358 ends: delay is not read again.
BackoffWake ==
    \E t \in TaskIds :
      /\ Runs(t, "h_sleep")
      /\ Commit(Reconnect([ Cur EXCEPT !.tasks[t].delay = 0,
                                       !.solo.slept = IF solo.on THEN tasks[t].delay
                                                      ELSE @ ], t))

\* The close awaited in _reconnect returns.
ReconnectCloseDone ==
    \E t \in TaskIds :
      /\ Runs(t, "rc_close")
      /\ Commit(ReconnectClosed(Cur, t))

\* The close awaited in disconnect returns.
DisconnectCloseDone ==
    \E t \in TaskIds :
      /\ Runs(t, "d_close")
      /\ Commit(DisconnectClosed([ Cur EXCEPT !.tasks[t].h = 0 ], t))

\* The monitor task runs for the first time.
MonitorStart ==
    \E t \in TaskIds :
      /\ Runs(t, "m_start")
      /\ Commit(MonitorLoop(Cur, t))

\* A monitor that leaves the reconnect to the backoff path while that sleeps.
MonitorTick_NotDuringBackoff ==
    \E t \in TaskIds :
      /\ Runs(t, "m_sleep")
      /\ Commit(IF /\ should_maintain_connection /\ ~ is_connected
                    /\ \A u \in TaskIds : tasks[u].pc # "h_sleep"
                      THEN Reconnect(Cur, t)
                      ELSE MonitorLoop(Cur, t))

\* A monitor that only sleeps.
MonitorTick_Idle ==
    \E t \in TaskIds :
      /\ Runs(t, "m_sleep")
      /\ Commit(MonitorLoop(Cur, t))

\* lines 331-335: the monitor's sleep ends
MonitorTick ==
    \E t \in TaskIds :
      /\ Runs(t, "m_sleep")
      /\ Commit(IF should_maintain_connection /\ ~ is_connected
                      THEN Reconnect(Cur, t)
                      ELSE MonitorLoop(Cur, t))

\* The receive task runs for the first time.
ReceiveStart ==
    \E t \in TaskIds :
      /\ Runs(t, "r_start")
      /\ Commit(ReceiveLoop(Cur, t))

\* recv() returns a payload of F from an open connection.
ReceiveOf(F) ==
    \E t \in TaskIds, f \in F :
      /\ Runs(t, "r_recv")
      /\ tasks[t].h \in open
      /\ (f.k = "obj" /\ f.is_complete) => HistoryRoom
      /\ (f.k = "raw" /\ ~ is_receiving) =>
            Len(message_stream) + Len(f.content) <= MaxStream
      /\ Commit([ Received(Cur, t, f) EXCEPT !.last.frame = << f >> ])

\* recv() returns a payload the handler handles.
ReceiveFrame == ReceiveOf({ f \in Frames : ~ RaisesTypeError(f) })

\* recv() returns a payload the handler raises on: the loop breaks with the
\* connection still open.
ReceiveRaises == ReceiveOf({ f \in Frames : RaisesTypeError(f) })

\* recv() raises ConnectionClosed: the connection it reads is closed.
ReceiveClosed ==
    \E t \in TaskIds :
      /\ Runs(t, "r_recv")
      /\ tasks[t].h \notin open
      /\ Commit(ReceiveFinally([ Cur EXCEPT !.tasks[t].h = 0 ], t))

\* The peer or the network closes an open connection.
PeerClose ==
    \E h \in open :
      /\ Commit([ Cur EXCEPT !.open = @ \ { h } ])

\* The transport send of line 237 returns.
SendDone ==
    \E t \in TaskIds :
      /\ Runs(t, "s_send")
      /\ tasks[t].h \in open
      /\ Commit(Finish(Cur, t))

\* A failed transport send that takes the user message back.
SendFails_RollsBack ==
    \E t \in TaskIds :
      /\ Runs(t, "s_send")
      /\ Commit(Finish([ Cur EXCEPT !.is_receiving = FALSE,
                                    !.message_history =
                                        SubSeq(@, 1, Len(@) - 1),
                                    !.last.err = "send failed" ], t))

\* lines 238-240: the transport send raises
SendFails ==
    \E t \in TaskIds :
      /\ Runs(t, "s_send")
      /\ Commit(Finish([ Cur EXCEPT !.is_receiving = FALSE,
                                          !.last.err = "send failed" ], t))

\* A cancelled task runs: CancelledError is raised where it was suspended.
TaskCancelled ==
    \E t \in TaskIds :
      /\ tasks[t].kind # "free"
      /\ tasks[t].cancel
      /\ Commit(Cancelled(Cur, t))

\* The connection machine: the application connects and disconnects, the
\* transport opens, refuses, drops and closes connections, the receive loop
\* ends on a closed connection or on an exception.
Next ==
    \/ CallConnect
    \/ CallDisconnect
    \/ OpenSucceeds
    \/ OpenFails
    \/ BackoffWake
    \/ ReconnectCloseDone
    \/ DisconnectCloseDone
    \/ MonitorStart
    \/ MonitorTick
    \/ ReceiveStart
    \/ ReceiveRaises
    \/ ReceiveClosed
    \/ PeerClose
    \/ TaskCancelled

Spec == Init /\ [][Next]_vars


\* One connect() call on a manager just constructed, configured with any cap
\* up to MaxConfigured, against a transport that refuses every connection.
InitSolo == \E m \in 1..MaxConfigured : InitWith(m, TRUE)

SoloConnect == solo.opens = 0 /\ CallConnect

NextSolo ==
    \/ SoloConnect
    \/ OpenFails
    \/ BackoffWake

SpecSolo == InitSolo /\ [][NextSolo]_vars

\* The conversation: the application sends and clears; the transport accepts
\* every connection, delivers every payload the handler handles, and accepts
\* or rejects a transmission.
NextConv ==
    \/ CallSend
    \/ CallClear
    \/ OpenSucceeds
    \/ MonitorStart
    \/ MonitorTick
    \/ ReceiveStart
    \/ ReceiveFrame
    \/ SendDone
    \/ SendFails

SpecConv == Init /\ [][NextConv]_vars

\* recv() returns a structured payload.
ReceiveStructured == ReceiveOf({ f \in Frames : f.k = "obj" })

\* A conversation in which every inbound payload is a structured one.
NextStructured ==
    \/ CallSend
    \/ CallClear
    \/ OpenSucceeds
    \/ MonitorStart
    \/ MonitorTick
    \/ ReceiveStart
    \/ ReceiveStructured
    \/ SendDone
    \/ SendFails

SpecStructured == Init /\ [][NextStructured]_vars

\* Text fragments with the characters the pattern of lines 308-312 tells apart.
RawFragments ==
    { << "a" >>, << " " >>, << "'" >>, << "," >>, << "\n" >>,
      << "a", " " >>, << " ", "'" >> }
FragmentFrames ==
    [ k : { "raw" }, content : RawFragments, is_complete : { FALSE }, bin : BOOLEAN ]

\* recv() returns a text fragment.
ReceiveFragment ==
    /\ turn.n < MaxFragments
    /\ ReceiveOf(FragmentFrames)

\* The manager as constructed, the fragments of each turn recorded.
InitTurns == InitState(ConfiguredMaxAttempts, FALSE, TRUE)

\* send_message called in a conversation that has no message yet.
FirstSend == message_history = << >> /\ CallSend

\* A turn in which every inbound payload is a text fragment and the
\* transmission is accepted.
NextFragments ==
    \/ FirstSend
    \/ OpenSucceeds
    \/ MonitorStart
    \/ MonitorTick
    \/ ReceiveStart
    \/ ReceiveFragment
    \/ SendDone

SpecFragments == InitTurns /\ [][NextFragments]_vars

\* One payload of each kind the handler tells apart.
TurnFrames ==
    { f \in Frames : ~ f.bin /\ f.k # "bytes" /\ f.content # << "b" >>
                             /\ Len(f.content) = 1 }

\* recv() returns a payload of TurnFrames.
ReceiveTurnFrame == ReceiveOf(TurnFrames)

\* Turns on a transport that drops connections: sends and clears of the
\* application, payloads of every kind, and the error path, the reconnects and
\* the monitor they set going.
NextLossy ==
    \/ CallSendPlain
    \/ CallClear
    \/ OpenSucceeds
    \/ BackoffWake
    \/ ReconnectCloseDone
    \/ MonitorStart
    \/ MonitorTick
    \/ ReceiveStart
    \/ ReceiveTurnFrame
    \/ ReceiveClosed
    \/ PeerClose
    \/ SendDone
    \/ SendFails

SpecLossy == Init /\ [][NextLossy]_vars

\* send_message on a transport that refuses and drops connections: what the
\* call does before it has a connection, with no payload arriving.
NextEnsure ==
    \/ CallSendPlain
    \/ OpenSucceeds
    \/ OpenFails
    \/ BackoffWake
    \/ ReconnectCloseDone
    \/ MonitorStart
    \/ MonitorTick
    \/ ReceiveStart
    \/ ReceiveClosed
    \/ PeerClose
    \/ SendDone
    \/ SendFails

SpecEnsure == Init /\ [][NextEnsure]_vars

\* The first send_message of a manager that was never connected, on a
\* transport that accepts the connection and the transmission; the opens are
\* counted.
InitCounting == InitState(ConfiguredMaxAttempts, TRUE, FALSE)
OnlySend == solo.opens = 0 /\ CallSend

NextFirstSend ==
    \/ OnlySend
    \/ OpenSucceeds
    \/ MonitorStart
    \/ MonitorTick
    \/ ReceiveStart
    \/ ReceiveFrame
    \/ SendDone

SpecFirstSend == InitCounting /\ [][NextFirstSend]_vars

\* The requests the service has received and the answers it has completed,
\* read off a log that is never cleared.
Delivered ==
    Cardinality({ i \in 1..Len(message_history) : message_history[i].role = "user" })
    - Cardinality({ t \in TaskIds : tasks[t].kind = "send" /\ tasks[t].pc = "s_send" })
Answered ==
    Cardinality({ i \in 1..Len(message_history) :
                    message_history[i].role = "assistant" })

\* recv() returns a structured payload of the answer to the oldest request
\* the service has not answered yet.
ReceiveAnswer ==
    \E t \in TaskIds, f \in { g \in Frames : g.k = "obj" /\ ~ g.bin } :
      /\ Runs(t, "r_recv")
      /\ tasks[t].h \in open
      /\ Answered < Delivered
      /\ Commit([ Received(Cur, t, f) EXCEPT !.last.frame = << f >> ])

\* Turns on a transport that accepts everything, the service answering the
\* requests in the order it received them.
NextTurns ==
    \/ CallSendPlain
    \/ OpenSucceeds
    \/ MonitorStart
    \/ MonitorTick
    \/ ReceiveStart
    \/ ReceiveAnswer
    \/ SendDone

SpecTurns == Init /\ [][NextTurns]_vars

\* The manager as constructed, in a run with room for the tasks of two
\* reconnects that succeed one after the other.
InitOverlap == InitSlots(ConfiguredMaxAttempts, FALSE, FALSE, MaxTasks + 1)

\* connect() called by the application on a manager that has no connection
\* and no task.
ConnectIdle ==
    /\ websocket = 0
    /\ \A t \in TaskIds : tasks[t].kind = "free"
    /\ CallConnect

\* A connection that is lost while the monitor runs: the reconnect of the
\* error path and the reconnect of the monitor, in every interleaving.
NextOverlap ==
    \/ ConnectIdle
    \/ OpenSucceeds
    \/ BackoffWake
    \/ ReconnectCloseDone
    \/ MonitorStart
    \/ MonitorTick
    \/ ReceiveStart
    \/ ReceiveClosed
    \/ PeerClose

SpecOverlap == InitOverlap /\ [][NextOverlap]_vars

\* recv() returns a structured payload that does not complete the answer.
ReceivePartial ==
    ReceiveOf({ f \in Frames : f.k = "obj" /\ ~ f.is_complete /\ ~ f.bin
                               /\ f.content = << "a" >> })

\* A turn that is open while the application connects and disconnects and the
\* transport drops and closes connections.
NextCare ==
    \/ FirstSend
    \/ CallConnect
    \/ CallDisconnect
    \/ OpenSucceeds
    \/ BackoffWake
    \/ ReconnectCloseDone
    \/ DisconnectCloseDone
    \/ MonitorStart
    \/ MonitorTick
    \/ ReceiveStart
    \/ ReceivePartial
    \/ ReceiveClosed
    \/ PeerClose
    \/ SendDone
    \/ TaskCancelled

SpecCare == Init /\ [][NextCare]_vars

\* ------------------------------------------------------------- properties
\* What the step that leads to the next state did.
CallsOf(l) == { l.calls[i] : i \in 1..Len(l.calls) }
OpensStarted(l) == { i \in 1..Len(l.tx) : l.tx[i].call = "connect" }
AppCall(l) == l.calls # << >> /\ l.calls[1] = "app"
Entered(t, pc) == tasks'[t].pc = pc /\ tasks[t].pc # pc

\* C1: a task that is in the backoff sleep of _handle_connection_error when
\* disconnect() is called does not call connect() when it wakes, and once such
\* a disconnect() has returned is_connected is false.
C1_DisconnectDuringBackoff ==
    [][ /\ \A t \in TaskIds :
             ( /\ tasks[t].pc = "h_sleep"
               /\ ~ should_maintain_connection
               /\ tasks'[t] # tasks[t] )
             => ( "connect" \notin CallsOf(last') /\ OpensStarted(last') = { } )
        /\ (disconnected'.returned /\ disconnected'.in_backoff) => ~ is_connected'
      ]_vars

\* C2: when disconnect() was called while a task was awaiting the transport
\* open inside connect(), then once disconnect() has returned is_connected is
\* false and no transport handle is installed.
C2_DisconnectWins ==
    (disconnected.returned /\ disconnected.in_open)
        => (~ is_connected /\ websocket = 0)

\* C3 as claimed: once the error path has found the attempts at the cap, no
\* transport open is started by anything but an explicit call of the application.
C3_NoAttemptAfterCap ==
    [][ gave_up => (OpensStarted(last') = { } \/ AppCall(last')) ]_vars

\* The step in which _handle_connection_error finds the attempts at the cap.
CapStep ==
    /\ "_handle_connection_error" \in CallsOf(last')
    /\ should_maintain_connection
    /\ reconnection_attempts = max_reconnection_attempts

\* C3 as amended: the call of _handle_connection_error that finds
\* reconnection_attempts at max_reconnection_attempts resets it to 0 and
\* returns: it leaves is_connected false, starts no transport open and no
\* close, and leaves no task in a backoff sleep or a transport open that was
\* not in one before.  While no task of the manager is alive, a transport
\* open is started only by a call of the application.
C3_CapEndsTheChain ==
    [][ /\ CapStep =>
             /\ reconnection_attempts' = 0
             /\ ~ is_connected'
             /\ last'.tx = << >>
             /\ \A t \in TaskIds : ~ Entered(t, "h_sleep") /\ ~ Entered(t, "c_open")
        /\ (\A t \in TaskIds : tasks[t].kind = "free") =>
             (OpensStarted(last') = { } \/ AppCall(last'))
      ]_vars

\* C3's case: the error path has just given up in a manager that had been
\* connected, so that a health monitor is alive.
C3_Witness ==
    /\ last.err = "max attempts"
    /\ reconnection_attempts = 0
    /\ \E t \in TaskIds : tasks[t].kind = "mon"

\* C6: the step in which websockets.connect returns a connection leaves
\* is_connected true, reconnection_attempts 0, reconnection_delay at its
\* initial value, the new connection installed, a receive task and a monitor
\* task newly created and referenced, and the connection callback called once,
\* with True.
C6_SuccessfulOpen ==
    [][ (open' \ open # { }) =>
          /\ is_connected'
          /\ reconnection_attempts' = 0
          /\ reconnection_delay' = BaseDelay
          /\ open' \ open = { websocket' }
          /\ receive_task' # 0 /\ connection_monitor_task' # 0
          /\ tasks[receive_task'].kind = "free"
          /\ tasks'[receive_task'].kind = "recv"
          /\ tasks[connection_monitor_task'].kind = "free"
          /\ tasks'[connection_monitor_task'].kind = "mon"
          /\ last'.cb = << TRUE >>
      ]_vars

\* C6's case: a connection has just been opened by the health monitor of an
\* earlier connection, which goes on beside the monitor the open started.
C6_Witness ==
    /\ is_connected
    /\ reconnection_attempts = 0
    /\ last.cb = << TRUE >>
    /\ Len(last.spawn) = 2
    /\ "_handle_connection_error" \notin CallsOf(last)
    /\ Cardinality({ t \in TaskIds : tasks[t].kind = "mon" }) = 2

\* C7: connect() called by the application while a transport handle exists or
\* while should_maintain_connection is false changes nothing: no transport
\* call, no task, no callback, and is_connected, reconnection_attempts and the
\* handle as they were.
C7_ConnectNoOp ==
    [][ ( /\ last'.calls # << >>
          /\ last'.calls = << "app", "connect" >>
          /\ (websocket # 0 \/ ~ should_maintain_connection) )
        => /\ last'.tx = << >> /\ last'.cb = << >> /\ last'.spawn = << >>
           /\ UNCHANGED << is_connected, reconnection_attempts, websocket, tasks,
                           open, receive_task, connection_monitor_task,
                           should_maintain_connection, reconnection_delay >>
      ]_vars

\* C7's case: connect() has just been called with a handle present and the
\* attempts not 0.
C7_Witness ==
    /\ last.calls = << "app", "connect" >>
    /\ last.tx = << >>
    /\ websocket # 0
    /\ should_maintain_connection
    /\ reconnection_attempts > 0

\* C8: the step in which disconnect() is called sets should_maintain_connection
\* false, cancels the receive task and the monitor task the manager refers to
\* and closes the handle it holds; the step in which disconnect() returns
\* leaves should_maintain_connection false, websocket None, is_connected false
\* and the handle it closed closed, and calls the connection callback with
\* False.  A later disconnect() does the same.
C8_Disconnect ==
    [][ /\ "disconnect" \in CallsOf(last') =>
             /\ ~ should_maintain_connection'
             /\ receive_task # 0 => tasks'[receive_task].cancel
             /\ connection_monitor_task # 0 => tasks'[connection_monitor_task].cancel
             /\ websocket # 0 => websocket \notin open'
        /\ "disconnect returned" \in CallsOf(last') =>
             /\ ~ should_maintain_connection'
             /\ websocket' = 0
             /\ ~ is_connected'
             /\ last'.cb = << FALSE >>
             /\ \A t \in TaskIds : tasks[t].pc = "d_close" /\ tasks'[t].pc # "d_close"
                                      => tasks[t].h \notin open'
      ]_vars

\* C8's case: a disconnect() that had to close a connection has returned
\* after an earlier disconnect() had.
C8_Witness ==
    /\ last.calls = << "disconnect returned" >>
    /\ disconnected.in_open
    /\ websocket = 0

\* C9: should_maintain_connection changes only in a call of disconnect(), to
\* false, and a transport open is started only while it is true.
C9_ShouldMaintain ==
    [][ /\ should_maintain_connection' # should_maintain_connection =>
             (~ should_maintain_connection' /\ "disconnect" \in CallsOf(last'))
        /\ OpensStarted(last') # { } =>
             (should_maintain_connection /\ should_maintain_connection')
      ]_vars

\* C9's case: after disconnect() a backoff sleeper has woken, or connect() has
\* been called, and no transport open was started.
C9_Witness ==
    /\ ~ should_maintain_connection
    /\ ( "_reconnect" \in CallsOf(last) \/ "connect" \in CallsOf(last) )
    /\ last.tx = << >>


\* The schedule C4 states: the first delay is the base, 1 second, each next
\* one the double of the one before, capped at 30 seconds.
RECURSIVE ScheduledDelay(_)
ScheduledDelay(n) == IF n <= 1 THEN 1 ELSE Min(2 * ScheduledDelay(n - 1), 30)

\* C4: in an uninterrupted run of failed attempts the n-th backoff sleep is
\* entered with reconnection_attempts = n and a delay of min(1 * 2^(n-1), 30),
\* and no delay is shorter than the one before it.
C4_BackoffSchedule ==
    [][ \A t \in TaskIds : Entered(t, "h_sleep") =>
          /\ reconnection_attempts' = solo'.sleeps
          /\ tasks'[t].delay = ScheduledDelay(solo'.sleeps)
          /\ tasks'[t].delay >= solo.slept
      ]_vars

\* C4's case: the sixth sleep, the first the cap shortens, of a manager with
\* the max_reconnection_attempts it is constructed with.
C4_Witness ==
    /\ max_reconnection_attempts = DefaultMaxAttempts
    /\ solo.sleeps = 6
    /\ \E t \in TaskIds : tasks[t].pc = "h_sleep" /\ tasks[t].delay = 30

\* C5: a single connect() on a fresh manager whose transport refuses every
\* connection makes at most max_reconnection_attempts + 1 transport opens and
\* max_reconnection_attempts sleeps, can always go on while it has not
\* returned, and has made exactly that many when it has returned, with
\* reconnection_attempts 0, is_connected false and nothing pending.
C5_SingleConnect ==
    /\ solo.opens <= max_reconnection_attempts + 1
    /\ solo.sleeps <= max_reconnection_attempts
    /\ (\E t \in TaskIds : tasks[t].kind # "free") => ENABLED NextSolo
    /\ (solo.opens > 0 /\ \A t \in TaskIds : tasks[t].kind = "free") =>
          /\ solo.opens = max_reconnection_attempts + 1
          /\ solo.sleeps = max_reconnection_attempts
          /\ reconnection_attempts = 0
          /\ ~ is_connected
          /\ websocket = 0

\* C5's case: connect() has returned with max_reconnection_attempts = 2, after
\* three refused opens and two sleeps.
C5_Witness ==
    /\ max_reconnection_attempts = 2
    /\ solo.opens = 3 /\ solo.sleeps = 2
    /\ \A t \in TaskIds : tasks[t].kind = "free"


\* C10: every delivered structured payload with is_complete true appends to
\* message_history exactly one assistant message whose content is the
\* payload's content, and a structured payload with is_complete false leaves
\* message_history as it was.
C10_StructuredFrames ==
    [][ \A i \in 1..Len(last'.frame) :
          LET f == last'.frame[i] IN
          f.k = "obj" =>
            message_history' = IF f.is_complete
                               THEN Append(message_history,
                                           AssistantMessage(f.content))
                               ELSE message_history
      ]_vars

\* C10's case: after a question, a complete payload "a" was appended, and the
\* incomplete payload "b" delivered next has added nothing.
C10_Witness ==
    /\ Len(message_history) = 2
    /\ message_history[1].role = "user"
    /\ message_history[2] = AssistantMessage(<< "a" >>)
    /\ last.frame = << [ k |-> "obj", content |-> << "b" >>,
                         is_complete |-> FALSE, bin |-> FALSE ] >>
    /\ message_stream = << "b" >>


\* The concatenation of fragments.
RECURSIVE Concat(_)
Concat(frs) ==
    IF frs = << >> THEN << >>
    ELSE Concat(SubSeq(frs, 1, Len(frs) - 1)) \o frs[Len(frs)]

\* The normalization C11 describes: the whitespace before a quote or apostrophe
\* that ends the text is removed.
QuoteNormalized(s) ==
    LET n == Len(s) IN
    IF n = 0 \/ s[n] # "'" THEN s
    ELSE LET i == CHOOSE j \in 1..n :
                    /\ \A k \in j..(n-1) : s[k] \in Whitespace
                    /\ (j = 1 \/ s[j-1] \notin Whitespace)
         IN SubSeq(s, 1, i - 1) \o << s[n] >>

RECURSIVE QuoteNormalizedConcat(_)
QuoteNormalizedConcat(frs) ==
    IF frs = << >> THEN << >>
    ELSE QuoteNormalized(QuoteNormalizedConcat(SubSeq(frs, 1, Len(frs) - 1))
                         \o frs[Len(frs)])

\* C11 as claimed: after a send_message and N >= 1 text fragments the buffer is
\* fragment 1 as it came, followed by the later fragments concatenated and
\* normalized, the normalization removing only whitespace before a final quote
\* or apostrophe.
C11_FirstFragmentVerbatim ==
    (turn.on /\ turn.n >= 1) =>
        message_stream = turn.first \o QuoteNormalizedConcat(turn.rest)

\* The buffer the code builds from a first fragment and the later ones: each
\* later fragment is appended and the whole buffer is passed through the
\* substitution of lines 308-312.
RECURSIVE Assembled(_, _)
Assembled(first, frs) ==
    IF frs = << >> THEN first
    ELSE CleanPunctuation(Assembled(first, SubSeq(frs, 1, Len(frs) - 1))
                          \o frs[Len(frs)])

NonWhitespace(s) == SelectSeq(s, LAMBDA c : c \notin Whitespace)

\* C11 as amended: after one fragment the buffer is that fragment as it came;
\* after N >= 2 it is the result of appending each later fragment and removing,
\* from the whole buffer, the whitespace run before a final punctuation
\* character (comma, quote, apostrophe, backtick) that ends it or stands
\* before a newline that ends it.  Only whitespace is ever removed, fragment 1's
\* included, and after a later fragment no whitespace is left before such a
\* final punctuation character.
C11_Assembled ==
    (turn.on /\ turn.n >= 1) =>
        /\ message_stream = Assembled(turn.first, turn.rest)
        /\ turn.n = 1 => message_stream = turn.first
        /\ NonWhitespace(message_stream) =
              NonWhitespace(turn.first \o Concat(turn.rest))
        /\ turn.n >= 2 =>
              LET e == MatchEnd(message_stream) IN
              e > 1 => message_stream[e - 1] \notin Whitespace

\* C11's case: the second fragment, an apostrophe, has removed the space that
\* ended the first.
C11_Witness ==
    /\ turn.on
    /\ turn.first = << "a", " " >>
    /\ turn.rest = << << "'" >> >>
    /\ message_stream = << "a", "'" >>


\* C12: a text payload that is JSON but no {content, is_complete} object is
\* handled as a text fragment: the buffer is replaced by it (first fragment
\* of a turn) or extended by it and normalized, the message callback is
\* called, the receive loop goes on reading and is_connected keeps its value.
C12_NonObjectIsFragment ==
    [][ \A i \in 1..Len(last'.frame) :
          LET f == last'.frame[i] IN
          (f.k = "other" /\ ~ f.bin) =>
            /\ message_stream' = IF is_receiving THEN f.content
                                 ELSE CleanPunctuation(message_stream \o f.content)
            /\ last'.msg # << >>
            /\ is_connected' = is_connected
            /\ \E t \in TaskIds : tasks[t].pc = "r_recv" /\ tasks'[t].pc = "r_recv"
      ]_vars


\* What a step did, for C13.
Transmitting(l) == \E i \in 1..Len(l.tx) : l.tx[i].call = "send"
TransmissionFailed(l) == l.err = "send failed"
CompleteFrame(l) ==
    \E i \in 1..Len(l.frame) : l.frame[i].k = "obj" /\ l.frame[i].is_complete
FragmentFrame(l) == \E i \in 1..Len(l.frame) : l.frame[i].k = "raw"

\* C13: is_receiving becomes true only in the step in which send_message
\* starts its transmission, and that step leaves it true; it becomes false only
\* in a step that handles a structured payload with is_complete true, that
\* handles a text fragment while is_receiving is true, or in which the
\* transmission fails, and each of these leaves it false.  No other step (an
\* incomplete structured payload, a later fragment, a dropped connection, the
\* error path, a reconnect, clear_conversation) changes it.
C13_IsReceiving ==
    [][ /\ is_receiving' # is_receiving =>
             IF is_receiving' THEN Transmitting(last')
             ELSE \/ CompleteFrame(last')
                  \/ FragmentFrame(last')
                  \/ TransmissionFailed(last')
        /\ Transmitting(last') => is_receiving'
        /\ ( \/ CompleteFrame(last')
             \/ FragmentFrame(last') /\ is_receiving
             \/ TransmissionFailed(last') ) => ~ is_receiving'
      ]_vars

\* C13's case: is_receiving is still true after the conversation was cleared,
\* the connection was lost and the receive task has started a reconnect.
C13_Witness ==
    /\ is_receiving
    /\ message_history = << >>
    /\ ~ is_connected
    /\ \E t \in TaskIds : tasks[t].kind = "recv" /\ tasks[t].pc = "c_open"


\* The step in which send_message appends its user message (lines 186-218).
UserAppended ==
    /\ Len(message_history') = Len(message_history) + 1
    /\ message_history'[Len(message_history')].role = "user"

\* C14: send_message called on a connected manager whose buffer is not empty
\* leaves message_history ending with an assistant message that holds the old
\* buffer and then the user message, and leaves the buffer empty.
C14_LazyFlush ==
    [][ ( /\ AppCall(last')
          /\ "send_message" \in CallsOf(last')
          /\ is_connected
          /\ message_stream # << >> )
        => LET n == Len(message_history') IN
           /\ n >= 2
           /\ message_history'[n - 1] = AssistantMessage(message_stream)
           /\ message_history'[n].role = "user"
           /\ message_history'[n].content \in Texts
           /\ message_stream' = << >>
      ]_vars

\* The assistant messages of h that follow its last user message.
AssistantsOfLastTurn(h) ==
    LET users == { i \in 1..Len(h) : h[i].role = "user" }
        from == IF users = { } THEN 0 ELSE CHOOSE i \in users : \A j \in users : j <= i
    IN  Cardinality({ i \in (from + 1)..Len(h) : h[i].role = "assistant" })

\* C15: when send_message appends its user message after a turn that has left
\* a response in the buffer, message_history holds exactly one assistant
\* message for that turn, between the turn's user message and the new one.
C15_OneAssistantPerTurn ==
    [][ ( /\ UserAppended
          /\ message_stream # << >>
          /\ \E i \in 1..Len(message_history) : message_history[i].role = "user" )
        => AssistantsOfLastTurn(SubSeq(message_history', 1,
                                       Len(message_history') - 1)) = 1
      ]_vars

\* A step of a send_message that is still inside its connect() call.
SendWaits ==
    \E t \in TaskIds :
        /\ tasks[t].kind = "send"
        /\ tasks[t].pc # "s_send"
        /\ tasks'[t] # tasks[t]

\* C16: a send_message that raises "Not connected to AI service" leaves
\* message_history, last_messages, message_stream and is_receiving as they
\* were and transmits nothing, in the step that raises and in every step of
\* the call before it.
C16_NotConnectedChangesNothing ==
    [][ ( \/ last'.err = "not connected"
          \/ SendWaits /\ ~ UserAppended
          \/ AppCall(last') /\ "send_message" \in CallsOf(last') /\ ~ UserAppended )
        => /\ UNCHANGED << message_history, last_messages, message_stream,
                           is_receiving >>
           /\ ~ Transmitting(last')
      ]_vars

\* C16's case: a send_message has just raised "not connected" on a manager
\* whose earlier turn is still recorded and still marked as receiving.
C16_Witness ==
    /\ last.err = "not connected"
    /\ message_history # << >>
    /\ last_messages # << >>
    /\ is_receiving

\* C17: a send_message called while is_connected is false and
\* should_maintain_connection is true starts a transport open in connect()
\* before it can raise.
C17_SendAttemptsConnect ==
    [][ ( /\ AppCall(last')
          /\ "send_message" \in CallsOf(last')
          /\ ~ is_connected
          /\ should_maintain_connection )
        => OpensStarted(last') # { }
      ]_vars

\* C18: the first send_message of a manager that was never connected, on a
\* transport that accepts, starts exactly one transport open, turns the empty
\* message_history into the one user message of the call and sets
\* is_receiving; until a payload arrives is_receiving stays true and
\* message_history stays as it is.
C18_FirstSend ==
    [][ /\ solo'.opens <= 1
        /\ UserAppended =>
              /\ solo'.opens = 1
              /\ message_history = << >>
              /\ \E text \in Texts, ctx \in Contexts :
                    message_history' = << UserMessage(text, ctx) >>
              /\ is_receiving'
              /\ Transmitting(last')
        /\ (is_receiving /\ ~ is_receiving') => last'.frame # << >>
        /\ (message_history # << >> /\ last'.frame = << >>) =>
              UNCHANGED message_history
      ]_vars

\* C18's case: the first send_message has just transmitted over the one
\* connection it opened.
C18_Witness ==
    /\ Transmitting(last)
    /\ solo.opens = 1
    /\ Len(message_history) = 1
    /\ message_history[1].role = "user"
    /\ is_receiving
    /\ is_connected

\* p is a prefix of q.
IsPrefix(p, q) == Len(p) <= Len(q) /\ SubSeq(q, 1, Len(p)) = p

\* A send_message returns or raises from its transport send (lines 236-240).
SendEnds ==
    \E t \in TaskIds :
        /\ tasks[t].kind = "send"
        /\ tasks[t].pc = "s_send"
        /\ tasks'[t].kind = "free"

\* C19: when the transport send of send_message raises, is_receiving is false
\* afterwards and message_history, last_messages and message_stream are left
\* as send_message had made them: the step undoes nothing, and no step but
\* clear_conversation ever removes an entry of message_history or
\* last_messages.
C19_FailedSendKeepsChanges ==
    [][ /\ TransmissionFailed(last') =>
              /\ ~ is_receiving'
              /\ \/ UserAppended
                 \/ UNCHANGED << message_history, last_messages, message_stream >>
        /\ SendEnds =>
              UNCHANGED << message_history, last_messages, message_stream >>
        /\ "clear_conversation" \notin CallsOf(last') =>
              /\ IsPrefix(message_history, message_history')
              /\ IsPrefix(last_messages, last_messages')
      ]_vars

\* C19's case: the transport send has just raised for a send_message that
\* had flushed a buffered response and recorded its user message.
C19_Witness ==
    /\ TransmissionFailed(last)
    /\ ~ is_receiving
    /\ message_stream = << >>
    /\ Len(last_messages) >= 2
    /\ ~ last_messages[Len(last_messages) - 1].is_user
    /\ last_messages[Len(last_messages)].is_user
    /\ message_history # << >>
    /\ message_history[Len(message_history)].role = "user"

\* C20: the user message that send_message appends has metadata exactly when
\* one of ocr_text, selected_text and browser_url is neither None nor empty,
\* and then the metadata holds the three arguments; otherwise its metadata is
\* None, not a dictionary of empty fields.
C20_MetadataIffContext ==
    [][ UserAppended =>
          LET m == message_history'[Len(message_history')]
              a == last'.args[1]
          IN  /\ m.content = a.text
              /\ (m.metadata # << >>) <=>
                    (\E i \in 1..3 : a.ctx[i] # "None" /\ a.ctx[i] # "")
              /\ m.metadata \in { << >>, << a.ctx >> }
      ]_vars

\* C20's case: send_message has just appended a user message for a call whose
\* only context argument is the empty string.
C20_Witness ==
    /\ last.args # << >>
    /\ last.args[1].ctx = << "", "None", "None" >>
    /\ message_history # << >>
    /\ message_history[Len(message_history)].role = "user"
    /\ message_history[Len(message_history)].metadata = << >>

\* C21: the request send_message hands to the transport holds the whole of
\* message_history as it is at that moment, in order, ending with the user
\* message the call has just appended, and is_receiving is true when the
\* transport send is awaited.
C21_RequestIsWholeLog ==
    [][ \A i \in 1..Len(last'.tx) :
          last'.tx[i].call = "send" =>
            /\ last'.tx[i].messages = message_history'
            /\ message_history' =
                   Append(message_history,
                          UserMessage(last'.args[1].text, last'.args[1].ctx))
            /\ is_receiving'
            /\ last'.tx[i].h = websocket'
      ]_vars

\* C21's case: a send_message has just transmitted a request of two messages.
C21_Witness ==
    /\ Transmitting(last)
    /\ Len(message_history) = 2
    /\ \E i \in 1..Len(last.tx) : Len(last.tx[i].messages) = 2

\* C22: clear_conversation empties message_history, last_messages and
\* message_stream and leaves is_connected, is_receiving,
\* should_maintain_connection, reconnection_attempts, the websocket, the
\* connections and every task as they are.
C22_ClearConversation ==
    [][ "clear_conversation" \in CallsOf(last') =>
          /\ message_history' = << >>
          /\ last_messages' = << >>
          /\ message_stream' = << >>
          /\ UNCHANGED << is_connected, is_receiving, should_maintain_connection,
                          reconnection_attempts, max_reconnection_attempts,
                          reconnection_delay, websocket, receive_task,
                          connection_monitor_task, tasks, open >>
      ]_vars

\* C22's case: clear_conversation has just run on a connected manager that is
\* receiving, with a send_message still awaiting its transport send.
C22_Witness ==
    /\ "clear_conversation" \in CallsOf(last)
    /\ is_connected
    /\ is_receiving
    /\ \E t \in TaskIds : tasks[t].kind = "send" /\ tasks[t].pc = "s_send"
    /\ \E t \in TaskIds : tasks[t].kind = "recv" /\ tasks[t].pc = "r_recv"

\* The step handles a binary payload that is not UTF-8.
UndecodableFrame(l) == \E i \in 1..Len(l.frame) : l.frame[i].k = "bytes"

\* C23: a binary payload that does not decode changes neither message_stream,
\* is_receiving, message_history, last_messages nor the connection state,
\* calls no callback, and leaves the receive task awaiting the next recv().
C23_UndecodableDropped ==
    [][ UndecodableFrame(last') =>
          /\ UNCHANGED << message_stream, is_receiving, message_history,
                          last_messages, is_connected, should_maintain_connection,
                          websocket, reconnection_attempts, open, tasks,
                          receive_task, connection_monitor_task >>
          /\ last'.msg = << >>
          /\ last'.cb = << >>
          /\ \E t \in TaskIds : tasks'[t].kind = "recv" /\ tasks'[t].pc = "r_recv"
      ]_vars

\* C23's case: such a payload has just been dropped in the middle of an
\* answer, the buffer holding the part received so far.
C23_Witness ==
    /\ UndecodableFrame(last)
    /\ is_receiving
    /\ message_stream # << >>
    /\ Len(message_history) = 1

\* C24: a step that is not clear_conversation leaves every message that
\* message_history holds where it is and as it is: the log changes by
\* appending only.
C24_AppendOnly ==
    [][ "clear_conversation" \notin CallsOf(last') =>
          /\ Len(message_history) <= Len(message_history')
          /\ \A i \in 1..Len(message_history) :
                message_history'[i] = message_history[i]
      ]_vars

\* C24's case: the log holds a user message and, appended after it by the
\* receive loop, the answer.
C24_Witness ==
    /\ Len(message_history) = 2
    /\ message_history[1].role = "user"
    /\ message_history[2].role = "assistant"
    /\ CompleteFrame(last)

\* The messages of role r among the first n of h.
CountOf(h, r, n) == Cardinality({ i \in 1..n : h[i].role = r })

\* C25: the answers being given in the order of the requests, the assistant
\* message of a turn is never in message_history after the user message of
\* the next turn: the k-th assistant message has at most k user messages
\* before it.
C25_NoInterleaving ==
    \A j \in 1..Len(message_history) :
        message_history[j].role = "assistant" =>
            CountOf(message_history, "user", j - 1)
                <= CountOf(message_history, "assistant", j - 1) + 1

\* C26: in every state reconnection_attempts is at least 0 and at most
\* max_reconnection_attempts, whichever tasks run the error path and however
\* their steps interleave.
C26_AttemptsWithinCap ==
    /\ reconnection_attempts >= 0
    /\ reconnection_attempts <= max_reconnection_attempts

\* C26's case: the count is at the cap while the receive task and the monitor
\* task are both in the error path's backoff sleep.
C26_Witness ==
    /\ reconnection_attempts = max_reconnection_attempts
    /\ \E t, u \in TaskIds :
          /\ tasks[t].kind = "recv" /\ tasks[t].pc = "h_sleep"
          /\ tasks[u].kind = "mon" /\ tasks[u].pc = "h_sleep"

\* The receive loop of task t ends in this step: the task leaves the loop of
\* lines 253-267 it had started or was about to start.
LoopExit(t) ==
    /\ tasks[t].kind = "recv"
    /\ tasks[t].pc \in { "r_start", "r_recv" }
    /\ ~ tasks[t].cancel
    /\ tasks'[t].pc \notin { "r_start", "r_recv" }

\* C27: when the receive loop ends while should_maintain_connection is true,
\* _handle_connection_error runs in the same step: is_connected is false,
\* on_connection_changed(False) is called, and the task enters the backoff
\* sleep with the attempt counted, unless the count is at the cap.
C27_LoopExitIsHandled ==
    [][ \A t \in TaskIds :
          (LoopExit(t) /\ should_maintain_connection) =>
            /\ "_handle_connection_error" \in CallsOf(last')
            /\ ~ is_connected'
            /\ last'.cb = << FALSE >>
            /\ IF reconnection_attempts < max_reconnection_attempts
               THEN /\ tasks'[t].pc = "h_sleep"
                    /\ reconnection_attempts' = reconnection_attempts + 1
               ELSE /\ tasks'[t].kind = "free"
                    /\ gave_up'
      ]_vars

\* C27's case: the loop has just ended on an exception with the connection
\* still open, and its task sleeps in the backoff.
C27_Witness ==
    /\ last.err = "recv raised"
    /\ ~ is_connected
    /\ websocket \in open
    /\ \E t \in TaskIds : tasks[t].kind = "recv" /\ tasks[t].pc = "h_sleep"

\* websockets.connect raises in task t in this step.
FailedOpen(t) ==
    /\ tasks[t].pc = "c_open"
    /\ ~ tasks[t].cancel
    /\ tasks'[t].pc # "c_open"
    /\ \A i \in 1..Len(last'.cb) : ~ last'.cb[i]

\* C28: a step in which an open fails or the receive loop ends, while
\* should_maintain_connection is true, calls on_connection_changed(False) and
\* starts neither a reconnect nor an open; the backoff sleep is entered only
\* in a step that made that call, and _reconnect is called only by a task
\* that wakes from a sleep.
C28_CallbackBeforeRetry ==
    [][ /\ \A t \in TaskIds :
             ((FailedOpen(t) \/ LoopExit(t)) /\ should_maintain_connection) =>
               /\ last'.cb = << FALSE >>
               /\ "_reconnect" \notin CallsOf(last')
               /\ "connect" \notin CallsOf(last')
               /\ OpensStarted(last') = { }
        /\ \A t \in TaskIds : Entered(t, "h_sleep") => last'.cb = << FALSE >>
        /\ "_reconnect" \in CallsOf(last') =>
               \E t \in TaskIds : /\ tasks[t].pc \in { "h_sleep", "m_sleep" }
                                   /\ tasks'[t] # tasks[t]
      ]_vars

\* C28's case: the second failed open of a connect() call has just been
\* reported, and the task sleeps before its next attempt.
C28_Witness ==
    /\ last.cb = << FALSE >>
    /\ reconnection_attempts = 2
    /\ \E t \in TaskIds : tasks[t].kind = "connect" /\ tasks[t].pc = "h_sleep"

\* Everything but the label of the step.
fields ==
    << is_connected, is_receiving, should_maintain_connection, websocket,
       message_stream, message_history, last_messages, reconnection_attempts,
       max_reconnection_attempts, reconnection_delay, receive_task,
       connection_monitor_task, tasks, open, disconnected, gave_up, solo, turn,
       slots >>

\* C29: while should_maintain_connection is true, the monitor task leaves its
\* sleep for something else only when is_connected is false, and then by
\* calling _reconnect, whatever the other tasks are doing; and a step that
\* calls nothing and changes nothing - a tick that goes back to sleep -
\* happens only when is_connected is true.
C29_MonitorTick ==
    [][ should_maintain_connection =>
          /\ \A t \in TaskIds :
                ( /\ tasks[t].kind = "mon" /\ tasks[t].pc = "m_sleep"
                  /\ ~ tasks[t].cancel /\ ~ tasks'[t].cancel
                  /\ tasks'[t] # tasks[t] )
                => /\ ~ is_connected
                   /\ last'.calls # << >>
                   /\ last'.calls[1] = "_reconnect"
          /\ (UNCHANGED fields /\ last'.calls = << >>) => is_connected
      ]_vars

\* C29's case: a tick has just called _reconnect while another task sleeps in
\* the backoff of the error path.
C29_Witness ==
    /\ last.calls # << >>
    /\ last.calls[1] = "_reconnect"
    /\ \E t, u \in TaskIds :
          /\ tasks[t].kind = "mon" /\ tasks[t].pc \in { "rc_close", "c_open" }
          /\ tasks[u].pc = "h_sleep"

\* The tasks in the receive loop.
ReceiveLoops ==
    { t \in TaskIds : tasks[t].kind = "recv" /\ tasks[t].pc \in { "r_start", "r_recv" } }

\* C30: whatever reconnects overlap, no open connection is left that
\* self.websocket does not refer to, and at most one receive loop runs.
C30_ReconnectIdempotent ==
    /\ open \subseteq { websocket }
    /\ Cardinality(ReceiveLoops) <= 1

\* C31: on_message_received is called exactly once in the step that handles
\* an inbound payload, text or bytes that decode, and its argument is
\* message_stream as the payload has left it; the payloads being handled one
\* per step, the calls come in the order of arrival.
C31_CallbackPerPayload ==
    [][ ( /\ last'.frame # << >>
          /\ ~ UndecodableFrame(last') )
        => last'.msg = << message_stream' >>
      ]_vars

\* The step handles a structured payload; its content and its flag.
StructuredFrame(l) == l.frame # << >> /\ l.frame[1].k = "obj"

\* C32: a structured payload leaves message_stream equal to its content,
\* whatever the buffer held, and one with is_complete false changes neither
\* is_receiving, message_history, last_messages nor anything of the
\* connection.
C32_StructuredReplaces ==
    [][ StructuredFrame(last') =>
          /\ message_stream' = last'.frame[1].content
          /\ ~ last'.frame[1].is_complete =>
                UNCHANGED << is_receiving, message_history, last_messages,
                            is_connected, should_maintain_connection, websocket,
                            reconnection_attempts, open, tasks, receive_task,
                            connection_monitor_task >>
      ]_vars

\* C32's case: a structured payload with is_complete false has just replaced
\* the buffer in the middle of a turn.
C32_Witness ==
    /\ StructuredFrame(last)
    /\ ~ last.frame[1].is_complete
    /\ last.frame[1].content = << "b" >>
    /\ message_stream = << "b" >>
    /\ is_receiving
    /\ Len(message_history) = 1

\* C33: the step in which send_message records its user message appends to
\* last_messages one record of the old buffer, marked as not the user's, when
\* the buffer was not empty, and then one record of the text, marked as the
\* user's; no other step appends to last_messages, and only
\* clear_conversation removes from it.
C33_DisplayRecords ==
    [][ /\ UserAppended =>
              last_messages' =
                  (IF message_stream # << >>
                   THEN Append(last_messages,
                               [ message |-> message_stream, is_user |-> FALSE ])
                   ELSE last_messages)
                  \o << [ message |-> last'.args[1].text, is_user |-> TRUE ] >>
        /\ ( /\ ~ UserAppended
             /\ "clear_conversation" \notin CallsOf(last') ) =>
              UNCHANGED last_messages
      ]_vars

\* C33's case: a send_message has just recorded its text after the record of
\* the answer that was in the buffer.
C33_Witness ==
    /\ Transmitting(last)
    /\ Len(last_messages) = 3
    /\ last_messages[1].is_user
    /\ ~ last_messages[2].is_user
    /\ last_messages[2].message = << "a" >>
    /\ last_messages[3].is_user

\* C34: in every state, is_connected true implies that self.websocket holds
\* a handle.
C34_ConnectedHasHandle == is_connected => websocket # 0

\* The step closes a transport handle.
Closes(l) == \E i \in 1..Len(l.tx) : l.tx[i].call = "close"

\* C35: a step that closes the transport handle while is_connected is true
\* is a step of disconnect(): _reconnect, whoever calls it, closes a handle
\* only when the manager is not connected.
C35_NoHealthyTeardown ==
    [][ (Closes(last') /\ is_connected) => "disconnect" \in CallsOf(last') ]_vars

\* The monitor tasks that are alive.
Monitors == { t \in TaskIds : tasks[t].kind = "mon" }

\* C36: in every state at most one monitor task is alive, and it is the task
\* self.connection_monitor_task refers to, the one disconnect() cancels.
C36_OneMonitor ==
    /\ Cardinality(Monitors) <= 1
    /\ \A t \in Monitors : connection_monitor_task = t

\* The step handles a payload the handler accepts.
HandledFrame(l) == l.frame # << >> /\ l.frame[1].k \in { "obj", "raw" }

\* C37: message_history, last_messages, message_stream and is_receiving
\* change only in a step that runs the body of send_message, handles a
\* payload or calls clear_conversation: the steps of connect(), disconnect(),
\* _handle_connection_error and _reconnect, and of the tasks in them, leave
\* the four as they are.
C37_ConversationUntouched ==
    [][ ( /\ ~ UserAppended
          /\ ~ TransmissionFailed(last')
          /\ ~ HandledFrame(last')
          /\ "clear_conversation" \notin CallsOf(last') )
        => UNCHANGED << message_history, last_messages, message_stream,
                        is_receiving >>
      ]_vars

\* C37's case: the connection has dropped in the middle of a turn and the
\* error path has just run; the turn is still marked as receiving.
C37_Witness ==
    /\ "_handle_connection_error" \in CallsOf(last)
    /\ ~ is_connected
    /\ is_receiving
    /\ message_stream # << >>
    /\ Len(message_history) = 1

\* A connection is lost on a transport that may refuse the attempts
\* to re-open it; disconnect() is not called.
NextRecover ==
    \/ ConnectIdle
    \/ OpenSucceeds
    \/ OpenFails
    \/ BackoffWake
    \/ ReconnectCloseDone
    \/ MonitorStart
    \/ MonitorTick
    \/ ReceiveStart
    \/ ReceiveClosed
    \/ PeerClose

\* The event loop runs every task that can run, every sleep ends, and the
\* transport answers every open and every close it is asked for.
FairTasks ==
    /\ WF_vars(OpenFails \/ OpenSucceeds)
    /\ WF_vars(BackoffWake)
    /\ WF_vars(ReconnectCloseDone)
    /\ WF_vars(MonitorStart)
    /\ WF_vars(MonitorTick)
    /\ WF_vars(ReceiveStart)
    /\ WF_vars(ReceiveClosed)

SpecRecover == InitOverlap /\ [][NextRecover]_vars /\ FairTasks

\* No open fails in this step.
NoFailedOpen == \A t \in TaskIds : ~ FailedOpen(t)

\* The first connection has been made and lost, and none since.
FirstLoss == ~ is_connected /\ Cardinality(Monitors) = 1

\* C38: if from some point on no open fails, then whenever the manager has
\* lost its first connection it is connected again later, the tasks being
\* scheduled fairly and disconnect() not being called.
C38_EventuallyReconnected ==
    (<>[][NoFailedOpen]_vars) => (FirstLoss ~> is_connected)

\* C38's case: connected again after the error path had given up at the cap.
C38_Witness ==
    /\ is_connected
    /\ gave_up
    /\ Cardinality(Monitors) = 2

\* ------------------------------------------- the frontend's BackendClient
\* The fields of AIConnectionManager, which no step of the client touches.
manager ==
    << is_connected, is_receiving, should_maintain_connection, websocket,
       message_stream, message_history, last_messages, reconnection_attempts,
       max_reconnection_attempts, reconnection_delay, receive_task,
       connection_monitor_task, tasks, open, last, disconnected, gave_up, solo,
       turn, slots >>

ClientTaskIds == 1..MaxTasks

ClientCommit(c) == backend_client' = c /\ UNCHANGED manager

\* A finished task keeps its slot while self.ws_task still refers to it.
ClientFreeSlots(c) ==
    { t \in ClientTaskIds : c.tasks[t].kind = "free" /\ c.ws_task # t }

ClientFreeHandles(c) ==
    { h \in HandleIds : /\ h \notin c.open
                        /\ c.websocket # h
                        /\ \A t \in ClientTaskIds : c.tasks[t].h # h }

\* asyncio.create_task in slot n
ClientSpawn(c, n, kind, pc) ==
    [ c EXCEPT !.tasks[n] = [ kind |-> kind, pc |-> pc, cancel |-> FALSE, h |-> 0 ] ]

ClientAwaits(t, pc) ==
    backend_client.tasks[t].pc = pc /\ ~ backend_client.tasks[t].cancel

\* lines 100-101: websockets.connect returned connection h; the listener is
\* created in slot n
ConnectWebsocket(c, h, n) ==
    ClientSpawn([ c EXCEPT !.websocket = h, !.open = @ \cup { h }, !.ws_task = n ],
                n, "listener", "l_start")

\* lines 92-95, to the await of the session's close or to the return
DisconnectSession(c) ==
    IF c.session THEN [ c EXCEPT !.call = "d_session" ]
    ELSE [ c EXCEPT !.call = "", !.returned = TRUE ]

\* lines 88-89, to the await of the close
DisconnectWebsocket(c) ==
    IF c.websocket # 0
    THEN [ c EXCEPT !.open = @ \ { c.websocket }, !.call = "d_close" ]
    ELSE DisconnectSession(c)

\* lines 75-95, to the first await that suspends: awaiting a task that has
\* finished does not
ClientDisconnectBody(c0) ==
    LET c == [ c0 EXCEPT !.connected = FALSE ] IN
    IF c.ws_task # 0 /\ c.tasks[c.ws_task].kind # "free"
    THEN [ c EXCEPT !.tasks[c.ws_task].cancel = TRUE, !.call = "d_wait",
                    !.waits = c.ws_task ]
    ELSE DisconnectWebsocket(c)

\* lines 122-125: the listener's finally, and the end of task t
WebsocketListenerFinally(c, t) ==
    LET d == [ c EXCEPT !.tasks[t] = NoClientTask ] IN
    IF c.connected
    THEN ClientSpawn(d, FirstOf(ClientFreeSlots(c)), "reconnect", "r_start")
    ELSE d

\* line 110: the loop's test, and the recv of line 112
WebsocketListenerLoop(c, t) ==
    IF c.connected /\ c.websocket # 0
    THEN [ c EXCEPT !.tasks[t].pc = "l_recv", !.tasks[t].h = c.websocket ]
    ELSE WebsocketListenerFinally(c, t)

\* The finally of the listener needs a slot when it creates a task.
ListenerRoom(c) == c.connected => ClientFreeSlots(c) # { }

\* The application calls connect() (lines 45-59).
ClientConnect ==
    /\ backend_client.call = ""
    /\ ClientCommit([ backend_client EXCEPT !.session = TRUE, !.call = "health",
                                            !.returned = FALSE ])

\* The health check answers and succeeds (lines 59-64).
HealthSucceeds ==
    /\ backend_client.call = "health"
    /\ ClientCommit([ backend_client EXCEPT !.call = "ws_open" ])

\* The health check fails: connect() calls disconnect() (lines 60-61, 70-72).
HealthFails ==
    /\ backend_client.call = "health"
    /\ ClientCommit(ClientDisconnectBody(backend_client))

\* websockets.connect returns to connect() (lines 100-101, 66-67).
ConnectOpenSucceeds ==
    /\ backend_client.call = "ws_open"
    /\ ClientFreeHandles(backend_client) # { }
    /\ ClientFreeSlots(backend_client) # { }
    /\ ClientCommit([ ConnectWebsocket(backend_client,
                                       FirstOf(ClientFreeHandles(backend_client)),
                                       FirstOf(ClientFreeSlots(backend_client)))
                      EXCEPT !.connected = TRUE, !.reconnect_attempts = 0,
                             !.call = "" ])

\* websockets.connect raises in connect() (lines 103-105, 70-72).
ConnectOpenFails ==
    /\ backend_client.call = "ws_open"
    /\ ClientCommit(ClientDisconnectBody(backend_client))

\* The application calls disconnect() (lines 75-95).
ClientDisconnect ==
    /\ backend_client.call = ""
    /\ ClientCommit(ClientDisconnectBody(backend_client))

\* The task awaited at line 84 has finished.
DisconnectAwaited ==
    /\ backend_client.call = "d_wait"
    /\ backend_client.tasks[backend_client.waits].kind = "free"
    /\ ClientCommit(DisconnectWebsocket([ backend_client EXCEPT !.waits = 0 ]))

\* The close awaited at line 89 returns (line 90).
DisconnectCloseReturns ==
    /\ backend_client.call = "d_close"
    /\ ClientCommit(DisconnectSession([ backend_client EXCEPT !.websocket = 0 ]))

\* The session's close awaited at line 94 returns (line 95).
DisconnectSessionClosed ==
    /\ backend_client.call = "d_session"
    /\ ClientCommit([ backend_client EXCEPT !.session = FALSE, !.call = "",
                                            !.returned = TRUE ])

\* A cancelled listener: one that has not run yet never does, one suspended
\* in recv gets CancelledError there (lines 120-125).
ListenerCancelled ==
    \E t \in ClientTaskIds :
      /\ backend_client.tasks[t].cancel
      /\ ListenerRoom(backend_client)
      /\ ClientCommit(IF backend_client.tasks[t].pc = "l_start"
                      THEN [ backend_client EXCEPT !.tasks[t] = NoClientTask ]
                      ELSE WebsocketListenerFinally(backend_client, t))

\* The listener's first run (lines 109-112).
ListenerStart ==
    \E t \in ClientTaskIds :
      /\ ClientAwaits(t, "l_start")
      /\ ListenerRoom(backend_client)
      /\ ClientCommit(WebsocketListenerLoop(backend_client, t))

\* recv returns a message (lines 112-113, 110): handling it changes no field.
ListenerMessage ==
    \E t \in ClientTaskIds :
      /\ ClientAwaits(t, "l_recv")
      /\ backend_client.tasks[t].h \in backend_client.open
      /\ ListenerRoom(backend_client)
      /\ ClientCommit(WebsocketListenerLoop(backend_client, t))

\* recv raises ConnectionClosed (lines 114-116, 122-125).
ListenerClosed ==
    \E t \in ClientTaskIds :
      /\ ClientAwaits(t, "l_recv")
      /\ backend_client.tasks[t].h \notin backend_client.open
      /\ ListenerRoom(backend_client)
      /\ ClientCommit(WebsocketListenerFinally(backend_client, t))

\* The backend closes a connection of the client.
ClientPeerClose ==
    \E h \in backend_client.open :
      ClientCommit([ backend_client EXCEPT !.open = @ \ { h } ])

\* _reconnect_websocket's first run, to its sleep (lines 144-152).
ReconnectWebsocketStart ==
    \E t \in ClientTaskIds :
      /\ ClientAwaits(t, "r_start")
      /\ ClientCommit(IF backend_client.reconnect_attempts >= ClientReconnectAttempts
                      THEN [ backend_client EXCEPT !.tasks[t] = NoClientTask ]
                      ELSE [ backend_client EXCEPT !.reconnect_attempts = @ + 1,
                                                   !.tasks[t].pc = "r_sleep" ])

\* The sleep of line 152 ends: websockets.connect is awaited (155, 100).
ReconnectWebsocketWake ==
    \E t \in ClientTaskIds :
      /\ ClientAwaits(t, "r_sleep")
      /\ ClientCommit([ backend_client EXCEPT !.tasks[t].pc = "r_open" ])

\* websockets.connect returns to _reconnect_websocket (lines 100-101, 156).
ReconnectOpenSucceeds ==
    \E t \in ClientTaskIds :
      /\ ClientAwaits(t, "r_open")
      /\ ClientFreeHandles(backend_client) # { }
      /\ ClientFreeSlots(backend_client) # { }
      /\ ClientCommit([ ConnectWebsocket(backend_client,
                                         FirstOf(ClientFreeHandles(backend_client)),
                                         FirstOf(ClientFreeSlots(backend_client)))
                        EXCEPT !.reconnect_attempts = 0,
                               !.tasks[t] = NoClientTask ])

\* websockets.connect raises in _reconnect_websocket (lines 103-105, 158-160).
ReconnectOpenFails ==
    \E t \in ClientTaskIds :
      /\ ClientAwaits(t, "r_open")
      /\ ClientFreeSlots(backend_client) # { }
      /\ ClientCommit([ ClientSpawn(backend_client,
                                    FirstOf(ClientFreeSlots(backend_client)),
                                    "reconnect", "r_start")
                        EXCEPT !.tasks[t] = NoClientTask ])

NextClient ==
    \/ ClientConnect
    \/ HealthSucceeds
    \/ HealthFails
    \/ ConnectOpenSucceeds
    \/ ConnectOpenFails
    \/ ClientDisconnect
    \/ DisconnectAwaited
    \/ DisconnectCloseReturns
    \/ DisconnectSessionClosed
    \/ ListenerCancelled
    \/ ListenerStart
    \/ ListenerMessage
    \/ ListenerClosed
    \/ ClientPeerClose
    \/ ReconnectWebsocketStart
    \/ ReconnectWebsocketWake
    \/ ReconnectOpenSucceeds
    \/ ReconnectOpenFails

SpecClient == Init /\ [][NextClient]_vars

\* C39: once the client's disconnect() has returned, and until connect() is
\* called again, its websocket handle is None.
C39_StaysDisconnected ==
    backend_client.returned => backend_client.websocket = 0

=============================================================================
